---- MODULE Spec2Model ----
(***************************************************************************)
(* A model of the survey analysis library: the subset and distribution     *)
(* operations of StackOverflowSurveyAnalyzer (src/so_survey_analyzer.py)   *)
(* and of StackOverflowAnalyzer (src/stackoverflow_analyzer/analyzer.py).  *)
(*                                                                         *)
(* A string is a sequence of one-character strings.  A missing cell (the   *)
(* NaN pandas.read_csv makes of an empty field) is the value NaN.  A       *)
(* percentage count / base * 100 is kept exactly, as the pair              *)
(* [num |-> 100 * count, den |-> base]; floating point rounding is not     *)
(* modelled.                                                               *)
(***************************************************************************)
EXTENDS Integers, Sequences, FiniteSets, TLC

VARIABLES data, cur, ret, pc, repl

vars == <<data, cur, ret, pc, repl>>

(***************************************************************************)
(* Bounds of the model.                                                    *)
(***************************************************************************)
\* the largest number of rows of a table built from RowPool
MaxRows == 3
\* the longest cell of the single-row tables that enumerate every string
MaxLen == 2

(***************************************************************************)
(* Strings.                                                                *)
(***************************************************************************)
NaN == <<"NaN">>

Letters == {"a", "b", "A"}

Alphabet == Letters \cup {";", " ", ".", "+"}

\* str.lower() on one character
LowerChar(c) ==
    CASE c = "A" -> "a" [] c = "G" -> "g" [] c = "L" -> "l" [] c = "N" -> "n"
      [] c = "Q" -> "q" [] c = "Y" -> "y" [] c = "U" -> "u" [] c = "I" -> "i"
      [] c = "T" -> "t" [] c = "E" -> "e" [] c = "X" -> "x" [] c = "D" -> "d"
      [] c = "S" -> "s" [] OTHER -> c

\* str.lower()
Lower(s) == [i \in 1..Len(s) |-> LowerChar(s[i])]

IsSpace(c) == c = " "

RECURSIVE LStrip(_)
LStrip(s) == IF s # <<>> /\ IsSpace(Head(s)) THEN LStrip(Tail(s)) ELSE s

RECURSIVE RStrip(_)
RStrip(s) ==
    IF s # <<>> /\ IsSpace(s[Len(s)]) THEN RStrip(SubSeq(s, 1, Len(s) - 1)) ELSE s

\* str.strip(): leading and trailing whitespace removed
Strip(s) == RStrip(LStrip(s))

\* str.split(';'): the pieces between delimiters, empty pieces kept; always
\* at least one piece
RECURSIVE SplitFrom(_, _)
SplitFrom(s, piece) ==
    IF s = <<>> THEN <<piece>>
    ELSE IF Head(s) = ";" THEN <<piece>> \o SplitFrom(Tail(s), <<>>)
    ELSE SplitFrom(Tail(s), Append(piece, Head(s)))

Split(s) == SplitFrom(s, <<>>)

\* x in list
InSeq(x, seq) == \E i \in 1..Len(seq) : seq[i] = x

\* t occurs in s as a literal substring (Python's t in s)
Contains(s, t) ==
    \E i \in 0..(Len(s) - Len(t)) : SubSeq(s, i + 1, i + Len(t)) = t

(***************************************************************************)
(* The regular expressions of Python's re over the model's alphabet: a     *)
(* literal character, '.', a backslash escape and the quantifier '+'.      *)
(***************************************************************************)
\* the characters re.escape puts a backslash before (Python >= 3.7)
ReSpecial == {".", "+", " ", "\\"}

RECURSIVE re_escape(_)
re_escape(s) ==
    IF s = <<>> THEN <<>>
    ELSE (IF Head(s) \in ReSpecial THEN <<"\\", Head(s)>> ELSE <<Head(s)>>)
         \o re_escape(Tail(s))

ReError == <<[bad |-> TRUE]>>

\* re.compile: the pattern as a sequence of atoms [ch, any, plus], or ReError
\* ("nothing to repeat" for a leading '+', "multiple repeat" for a '+' after a
\* quantified atom, "bad escape" for a trailing backslash)
RECURSIVE re_parse(_, _)
re_parse(p, atoms) ==
    IF p = <<>> THEN atoms
    ELSE IF Head(p) = "+" THEN
        IF atoms = <<>> \/ atoms[Len(atoms)].plus THEN ReError
        ELSE re_parse(Tail(p),
                 [atoms EXCEPT ![Len(atoms)] = [@ EXCEPT !.plus = TRUE]])
    ELSE IF Head(p) = "\\" THEN
        IF Len(p) < 2 THEN ReError
        ELSE re_parse(Tail(Tail(p)),
                 Append(atoms, [ch |-> p[2], any |-> FALSE, plus |-> FALSE]))
    ELSE re_parse(Tail(p),
             Append(atoms, [ch |-> Head(p), any |-> Head(p) = ".", plus |-> FALSE]))

re_compile(p) == re_parse(p, <<>>)

AtomMatches(atom, c, icase) ==
    \/ atom.any
    \/ IF icase THEN LowerChar(atom.ch) = LowerChar(c) ELSE atom.ch = c

\* the atoms from k on match s at position i
RECURSIVE re_match_at(_, _, _, _, _)
re_match_at(atoms, k, s, i, icase) ==
    IF k > Len(atoms) THEN TRUE
    ELSE IF i > Len(s) THEN FALSE
    ELSE IF ~AtomMatches(atoms[k], s[i], icase) THEN FALSE
    ELSE \/ re_match_at(atoms, k + 1, s, i + 1, icase)
         \/ atoms[k].plus /\ re_match_at(atoms, k, s, i + 1, icase)

\* re.search(pattern, s) finds a match (the pattern compiled)
re_search(atoms, s, icase) ==
    \E i \in 1..(Len(s) + 1) : re_match_at(atoms, 1, s, i, icase)

(***************************************************************************)
(* The schema and the tables.                                              *)
(***************************************************************************)
\* the schema file: one row per question (column, question_text, type);
\* Ghost is a question of the schema with no column in the data
schema ==
    << [column |-> "Langs", question_text |-> <<"a", " ", "b">>, type |-> "MC"],
       [column |-> "Age",   question_text |-> <<"A">>,           type |-> "SC"],
       [column |-> "Note",  question_text |-> <<"b", ".">>,      type |-> "TE"],
       [column |-> "Ghost", question_text |-> <<"a">>,           type |-> "SC"] >>

\* the columns of the data file; Extra is a column with no schema row
DataColumns == {"Langs", "Age", "Note", "Extra"}

\* the column names a caller may pass; Nope is in neither file
ColumnNames == DataColumns \cup {"Ghost", "Nope"}

Row(langs, age, note, extra) ==
    [Langs |-> langs, Age |-> age, Note |-> note, Extra |-> extra]

\* the rows the multi-row tables are built from
RowPool ==
    { Row(<<"a", ";", "b">>, <<"a">>, NaN, <<"a">>),
      Row(<<"b">>, <<"b">>, <<"a">>, NaN),
      Row(NaN, NaN, NaN, NaN),
      Row(<<"a", "b", ";", " ", "a">>, <<"b">>, <<"b">>, <<"b">>),
      Row(<<"a", ";", "a", ";">>, <<"A">>, <<"a", " ">>, <<"a">>),
      Row(<<" ", ";", " ">>, <<" ">>, <<"a">>, <<"a", "+">>) }

RECURSIVE SeqsUpTo(_, _)
SeqsUpTo(S, n) ==
    IF n = 0 THEN {<<>>}
    ELSE LET shorter == SeqsUpTo(S, n - 1)
         IN  shorter \cup {Append(s, x) : s \in shorter, x \in S}

\* the non-empty strings of at most MaxLen characters
Strings == SeqsUpTo(Alphabet, MaxLen) \ {<<>>}

\* pandas.read_csv: a column with rows, all of them missing, is float64; any
\* other column of the model (strings, or no row at all) is object
read_csv(rows) ==
    [rows  |-> rows,
     dtype |-> [c \in DataColumns |->
                  IF rows # <<>> /\ \A i \in 1..Len(rows) : rows[i][c] = NaN
                  THEN "float64" ELSE "object"]]

\* the tables of at most MaxRows rows of RowPool
PoolTables == {read_csv(rows) : rows \in SeqsUpTo(RowPool, MaxRows)}

\* the single-row tables whose cells are one string, every string in turn
CellTables == {read_csv(<<Row(s, s, s, s)>>) : s \in Strings}

\* get_distribution's default for limit
DEFAULT_LIMIT == 20

\* the string of n characters 'a'
Repeat(n) == [i \in 1..n |-> "a"]

\* a table of DEFAULT_LIMIT + 1 rows with as many distinct answers: one more
\* than the default limit keeps
WideTable ==
    read_csv([i \in 1..(DEFAULT_LIMIT + 1) |->
                 Row(Repeat(i), Repeat(i), NaN, NaN)])

Tables == PoolTables \cup CellTables \cup {WideTable}

\* DataFrame.columns
Columns(df) == DOMAIN df.dtype

\* len(df)
NRows(df) == Len(df.rows)

\* df[column].notna(): the cell is not missing
notna(cell) == cell # NaN

\* df[mask]: the rows the mask selects, in order, with every column
RECURSIVE SelectRows(_, _)
SelectRows(rows, mask) ==
    IF rows = <<>> THEN <<>>
    ELSE (IF Head(mask) THEN <<Head(rows)>> ELSE <<>>)
         \o SelectRows(Tail(rows), Tail(mask))

\* df[mask][1:]: the first of the selected rows left out
BoolIndex_DropFirst(df, mask) ==
    [rows  |-> IF SelectRows(df.rows, mask) = <<>> THEN <<>>
               ELSE Tail(SelectRows(df.rows, mask)),
     dtype |-> df.dtype]

BoolIndex(df, mask) == [rows |-> SelectRows(df.rows, mask), dtype |-> df.dtype]

\* df[column].dropna(): the cells that are not missing, in row order
RECURSIVE dropna(_, _)
dropna(rows, column) ==
    IF rows = <<>> THEN <<>>
    ELSE (IF notna(Head(rows)[column]) THEN <<Head(rows)[column]>> ELSE <<>>)
         \o dropna(Tail(rows), column)

\* len(df[column]): the missing cells counted too
notna_sum_all(df, column) == NRows(df)

\* df[column].notna().sum()
notna_sum(df, column) == Len(dropna(df.rows, column))

(***************************************************************************)
(* Outcomes of a call.                                                     *)
(***************************************************************************)
Raise(error, message) == [kind |-> "error", error |-> error, message |-> message]

ReturnTable(df) == [kind |-> "table", table |-> df]

\* the error raised without the name of the column
ColumnNotFound_Unnamed(column) ==
    Raise("ValueError", <<"Column", "", "not found in data">>)

\* raise ValueError(f"Column '{column}' not found in data")
ColumnNotFound(column) == Raise("ValueError", <<"Column", column, "not found in data">>)

\* raise ValueError(f"Question '{column_name}' not found in schema")
QuestionNotFound(column) ==
    Raise("ValueError", <<"Question", column, "not found in schema">>)

\* Series.str on a column that is not of strings
StrAccessorError ==
    Raise("AttributeError", <<"Can only use .str accessor with string values!">>)

\* re.compile rejects the pattern
PatternError == Raise("re.error", <<"nothing to repeat">>)

\* Series.str.contains(pat, na=False, case=case): the mask, or the error
str_contains(df, column, pat, icase) ==
    IF df.dtype[column] # "object" THEN StrAccessorError
    ELSE LET atoms == re_compile(pat)
         IN  IF atoms = ReError THEN PatternError
             ELSE [kind |-> "mask",
                   mask |-> [i \in 1..NRows(df) |->
                               /\ notna(df.rows[i][column])
                               /\ re_search(atoms, df.rows[i][column], icase)]]

(***************************************************************************)
(* Counting and ranking.                                                   *)
(***************************************************************************)
\* the index of option in the entries, 0 when it has none
RECURSIVE IndexOf(_, _, _)
IndexOf(entries, option, i) ==
    IF i > Len(entries) THEN 0
    ELSE IF entries[i].option = option THEN i
    ELSE IndexOf(entries, option, i + 1)

\* collections.Counter(values): one entry per distinct value, in the order
\* the values are first met, with the number of its occurrences
RECURSIVE Counter(_, _)
Counter(values, entries) ==
    IF values = <<>> THEN entries
    ELSE LET i == IndexOf(entries, Head(values), 1)
         IN  Counter(Tail(values),
                     IF i = 0
                     THEN Append(entries, [option |-> Head(values), count |-> 1])
                     ELSE [entries EXCEPT ![i] = [@ EXCEPT !.count = @ + 1]])

\* the position of the first entry with the largest count
RECURSIVE ArgMax(_, _, _)
ArgMax(entries, i, best) ==
    IF i > Len(entries) THEN best
    ELSE ArgMax(entries, i + 1,
                IF entries[i].count > entries[best].count THEN i ELSE best)

RemoveAt(seq, i) == SubSeq(seq, 1, i - 1) \o SubSeq(seq, i + 1, Len(seq))

\* sorted(entries, key=count, reverse=True): by count descending, entries of
\* equal count in their given order (the sort is stable)
RECURSIVE SortByCount(_)
SortByCount(entries) ==
    IF entries = <<>> THEN <<>>
    ELSE LET i == ArgMax(entries, 1, 1)
         IN  <<entries[i]>> \o SortByCount(RemoveAt(entries, i))

\* the first n items (n >= 0)
Take(seq, n) == SubSeq(seq, 1, IF n < Len(seq) THEN n ELSE Len(seq))

\* an optional integer argument: NoLimit for None, <<n>> for n
NoLimit == <<>>

\* Counter.most_common(n): all entries ranked when n is None; none when
\* n <= 0 (heapq.nlargest); else the first n of the ranking
most_common(entries, n) ==
    IF n = NoLimit THEN SortByCount(entries)
    ELSE IF n[1] <= 0 THEN <<>>
    ELSE Take(SortByCount(entries), n[1])

\* Series.value_counts(dropna=False): the missing cells counted as a value
value_counts_dropna_false(df, column) ==
    SortByCount(Counter([i \in 1..NRows(df) |-> df.rows[i][column]], <<>>))

\* Series.value_counts(): the missing cells dropped, the distinct values
\* ranked by count
value_counts(df, column) == SortByCount(Counter(dropna(df.rows, column), <<>>))

\* Series.head(n): the first n entries; all but the last -n when n < 0
head(entries, n) ==
    IF n >= 0 THEN Take(entries, n)
    ELSE Take(entries, IF Len(entries) + n > 0 THEN Len(entries) + n ELSE 0)

\* count / base * 100, kept exactly
Percentage(count, base) == [num |-> 100 * count, den |-> base]

\* the entries with the percentage of each over base
WithPercentages(entries, base) ==
    [i \in 1..Len(entries) |->
        [option     |-> entries[i].option,
         count      |-> entries[i].count,
         percentage |-> Percentage(entries[i].count, base)]]

\* the selections of a column, cell after cell: [v.strip() for v in
\* str(value_string).split(';')], the empty pieces kept
RECURSIVE all_choices(_)
all_choices(cells) ==
    IF cells = <<>> THEN <<>>
    ELSE LET pieces == Split(Head(cells))
         IN  (IF Head(cells) = <<>> THEN <<>>
              ELSE [i \in 1..Len(pieces) |-> Strip(pieces[i])])
             \o all_choices(Tail(cells))

\* the pieces that are not empty, in order
RECURSIVE NonEmpty(_)
NonEmpty(pieces) ==
    IF pieces = <<>> THEN <<>>
    ELSE (IF Head(pieces) # <<>> THEN <<Head(pieces)>> ELSE <<>>)
         \o NonEmpty(Tail(pieces))

\* the selections of a column, cell after cell: [opt.strip() for opt in
\* str(value).split(';') if opt.strip()], for the cells that are not blank
RECURSIVE all_options(_)
all_options(cells) ==
    IF cells = <<>> THEN <<>>
    ELSE LET pieces == Split(Head(cells))
         IN  (IF Strip(Head(cells)) = <<>> THEN <<>>
              ELSE NonEmpty([i \in 1..Len(pieces) |-> Strip(pieces[i])]))
             \o all_options(Tail(cells))

RECURSIVE SumCounts(_)
SumCounts(entries) ==
    IF entries = <<>> THEN 0 ELSE Head(entries).count + SumCounts(Tail(entries))

\* ord(c), for the characters of the alphabet
Ord(c) ==
    CASE c = " " -> 32 [] c = "+" -> 43 [] c = "." -> 46 [] c = ";" -> 59
      [] c = "A" -> 65 [] c = "\\" -> 92 [] c = "a" -> 97 [] c = "b" -> 98

\* s < t for Python strings: by the first character that differs, a proper
\* prefix before the longer string
RECURSIVE StrLess(_, _)
StrLess(s, t) ==
    IF t = <<>> THEN FALSE
    ELSE IF s = <<>> THEN TRUE
    ELSE IF Head(s) = Head(t) THEN StrLess(Tail(s), Tail(t))
    ELSE Ord(Head(s)) < Ord(Head(t))

\* sorted(list(set(values)))
RECURSIVE SortedSet(_)
SortedSet(S) ==
    IF S = {} THEN <<>>
    ELSE LET least == CHOOSE x \in S : \A y \in S \ {x} : StrLess(x, y)
         IN  <<least>> \o SortedSet(S \ {least})

SeqToSet(seq) == {seq[i] : i \in 1..Len(seq)}

ReturnValues(values) == [kind |-> "values", values |-> values]

(***************************************************************************)
(* StackOverflowSurveyAnalyzer (src/so_survey_analyzer.py).                *)
(***************************************************************************)
\* self.schema_dict.get(column, {}).get('type', 'Unknown')
schema_dict_type(column) ==
    IF \E i \in 1..Len(schema) : schema[i].column = column
    THEN (CHOOSE q \in {schema[i] : i \in 1..Len(schema)} : q.column = column).type
    ELSE "Unknown"

\* create_subset with the cells of a column that is not MC trimmed and
\* compared without regard to case
SurveyAnalyzer_create_subset_loose(column, value, df) ==
    IF column \notin Columns(df) THEN ColumnNotFound(column)
    ELSE IF schema_dict_type(column) = "MC" THEN
        LET m == str_contains(df, column, re_escape(value), FALSE)
        IN  IF m.kind = "error" THEN m ELSE ReturnTable(BoolIndex(df, m.mask))
    ELSE ReturnTable(BoolIndex(df,
             [i \in 1..NRows(df) |->
                 /\ notna(df.rows[i][column])
                 /\ Lower(Strip(df.rows[i][column])) = Lower(Strip(value))]))

\* create_subset(column, value, data)
SurveyAnalyzer_create_subset(column, value, df) ==
    IF column \notin Columns(df) THEN ColumnNotFound(column)
    ELSE IF schema_dict_type(column) = "MC" THEN
        LET m == str_contains(df, column, re_escape(value), FALSE)
        IN  IF m.kind = "error" THEN m ELSE ReturnTable(BoolIndex(df, m.mask))
    ELSE ReturnTable(BoolIndex(df,
             [i \in 1..NRows(df) |-> df.rows[i][column] = value]))

\* get_unique_values(column, data)
get_unique_values(column, df) ==
    IF column \notin Columns(df) THEN ColumnNotFound(column)
    ELSE IF schema_dict_type(column) = "MC"
    THEN ReturnValues(SortedSet(SeqToSet(all_choices(dropna(df.rows, column)))))
    ELSE ReturnValues(SortedSet(SeqToSet(dropna(df.rows, column))))

\* get_distribution(column, data, limit)
get_distribution(column, df, limit) ==
    IF column \notin Columns(df) THEN ColumnNotFound(column)
    ELSE LET question_type   == schema_dict_type(column)
             total_responses == NRows(df)
             valid_responses == notna_sum(df, column)
             choice_counts   == Counter(all_choices(dropna(df.rows, column)), <<>>)
         IN  [kind            |-> "dist",
              question_type   |-> question_type,
              total_responses |-> total_responses,
              valid_responses |-> valid_responses,
              distribution    |->
                  IF question_type = "MC"
                  THEN WithPercentages(most_common(choice_counts, <<limit>>),
                                       valid_responses)
                  ELSE WithPercentages(head(value_counts(df, column), limit),
                                       total_responses)]

\* the result of a search: the matching schema rows, in schema order
ReturnQuestions(mask) == [kind |-> "questions", questions |-> SelectRows(schema, mask)]

\* search_questions(search_term, case_sensitive): the term is escaped and
\* looked for in the question texts
search_questions(search_term, case_sensitive) ==
    LET term  == IF case_sensitive THEN search_term ELSE Lower(search_term)
        atoms == re_compile(re_escape(term))
    IN  IF atoms = ReError THEN PatternError
        ELSE ReturnQuestions(
                 [i \in 1..Len(schema) |->
                     re_search(atoms,
                               IF case_sensitive THEN schema[i].question_text
                               ELSE Lower(schema[i].question_text),
                               FALSE)])

(***************************************************************************)
(* StackOverflowAnalyzer (src/stackoverflow_analyzer/analyzer.py).         *)
(***************************************************************************)
NoInfo == [column |-> "", type |-> "None"]

\* get_question_info(column_name): the first schema row of the column, or None
get_question_info(column_name) ==
    IF \E i \in 1..Len(schema) : schema[i].column = column_name
    THEN LET q == CHOOSE q \in {schema[i] : i \in 1..Len(schema)} :
                      q.column = column_name
         IN  [column |-> q.column, type |-> q.type]
    ELSE NoInfo

\* the characters of a column name
NameChars(column) ==
    CASE column = "Langs" -> <<"L", "a", "n", "g", "s">>
      [] column = "Age"   -> <<"A", "g", "e">>
      [] column = "Note"  -> <<"N", "o", "t", "e">>
      [] column = "Ghost" -> <<"G", "h", "o", "s", "t">>
      [] column = "Extra" -> <<"E", "x", "t", "r", "a">>
      [] column = "Nope"  -> <<"N", "o", "p", "e">>

\* search_questions(search_term, case_sensitive): the term is a pattern,
\* looked for in the column names and in the question texts
Analyzer_search_questions(search_term, case_sensitive) ==
    LET term  == IF case_sensitive THEN search_term ELSE Lower(search_term)
        atoms == re_compile(term)
        Cased(x) == IF case_sensitive THEN x ELSE Lower(x)
    IN  IF atoms = ReError THEN PatternError
        ELSE ReturnQuestions(
                 [i \in 1..Len(schema) |->
                     \/ re_search(atoms, Cased(NameChars(schema[i].column)), FALSE)
                     \/ re_search(atoms, Cased(schema[i].question_text), FALSE)])

\* create_subset(column_name, option_value, exact_match), on self._data
Analyzer_create_subset(column_name, option_value, exact_match, df) ==
    IF column_name \notin Columns(df) THEN ColumnNotFound(column_name)
    ELSE IF get_question_info(column_name) = NoInfo
    THEN QuestionNotFound(column_name)
    ELSE LET m == IF exact_match
                  THEN [kind |-> "mask",
                        mask |-> [i \in 1..NRows(df) |->
                            LET x == df.rows[i][column_name]
                            IN  IF get_question_info(column_name).type = "MC"
                                THEN notna(x) /\ InSeq(option_value, Split(x))
                                ELSE x = option_value]]
                  ELSE str_contains(df, column_name, option_value, TRUE)
         IN  IF m.kind = "error" THEN m ELSE ReturnTable(BoolIndex(df, m.mask))

\* if top_n: None and 0 are false
Truthy(top_n) == top_n # NoLimit /\ top_n[1] # 0

\* get_answer_distribution(column_name, top_n), on self._data
get_answer_distribution(column_name, top_n, df) ==
    IF column_name \notin Columns(df) THEN ColumnNotFound(column_name)
    ELSE IF get_question_info(column_name) = NoInfo
    THEN QuestionNotFound(column_name)
    ELSE LET question_type   == get_question_info(column_name).type
             valid_responses == notna_sum(df, column_name)
             all_counts      == Counter(all_options(dropna(df.rows, column_name)), <<>>)
             mc_counts       == IF Truthy(top_n) THEN most_common(all_counts, top_n)
                                ELSE all_counts
             sc_counts       == IF Truthy(top_n)
                                THEN head(value_counts(df, column_name), top_n[1])
                                ELSE value_counts(df, column_name)
         IN  IF question_type = "MC" /\ mc_counts # <<>> /\ SumCounts(mc_counts) = 0
             THEN Raise("ZeroDivisionError", <<"division by zero">>)
             ELSE
             [kind            |-> "dist",
              question_type   |-> question_type,
              total_responses |-> NRows(df),
              valid_responses |-> valid_responses,
              distribution    |->
                  IF question_type = "MC"
                  THEN WithPercentages(mc_counts, SumCounts(mc_counts))
                  ELSE WithPercentages(sc_counts, valid_responses)]

\* get_unique_options(column_name), on self._data: the schema is looked up
\* first, and the column is read with no check that the data has it
get_unique_options(column_name, df) ==
    IF get_question_info(column_name) = NoInfo THEN QuestionNotFound(column_name)
    ELSE IF column_name \notin Columns(df) THEN Raise("KeyError", <<column_name>>)
    ELSE IF get_question_info(column_name).type = "MC"
    THEN ReturnValues(SortedSet(SeqToSet(all_options(dropna(df.rows, column_name)))))
    ELSE ReturnValues(SortedSet(SeqToSet(dropna(df.rows, column_name))))

(***************************************************************************)
(* The session: a caller holds the analyzer's data and a current table,    *)
(* calls an operation and takes its result.                                *)
(***************************************************************************)
\* the values a caller filters for
TargetValues ==
    { <<"a">>, <<"b">>, <<"a", "b">>, <<"A">>, <<" ", "a">>,
      <<"a", "+">>, <<"a", ".">>, <<"+">>, <<>> }

\* the largest limit a caller passes
MaxLimit == 2

LimitArgs == {NoLimit} \cup {<<n>> : n \in (-1)..MaxLimit}

NoCall ==
    [op |-> "none", impl |-> "none", column |-> "", value |-> <<>>,
     exact |-> TRUE, limit |-> NoLimit, input |-> read_csv(<<>>),
     out |-> [kind |-> "none"]]

\* no interactive session is running
NoSession == [impl |-> "none", current_subset_name |-> <<>>]

Init ==
    /\ data \in Tables
    /\ cur = data
    /\ ret = NoCall
    /\ pc = "ready"
    /\ repl = NoSession

\* create_subset filtering in place: the analyzer's data replaced by the
\* rows selected
CallCreateSubset_InPlace(column, value) ==
    /\ pc = "ready"
    /\ ret' = [op |-> "create_subset", impl |-> "SurveyAnalyzer",
               column |-> column, value |-> value, exact |-> TRUE,
               limit |-> NoLimit, input |-> cur,
               out |-> SurveyAnalyzer_create_subset(column, value, cur)]
    /\ pc' = "returned"
    /\ data' = IF ret'.out.kind = "table" THEN ret'.out.table ELSE data
    /\ UNCHANGED <<cur, repl>>

\* analyzer.create_subset(column, value, data=cur); cur is the analyzer's own
\* data (the default of the argument) until the caller keeps a subset
CallCreateSubset(column, value) ==
    /\ pc = "ready"
    /\ ret' = [op |-> "create_subset", impl |-> "SurveyAnalyzer",
               column |-> column, value |-> value, exact |-> TRUE,
               limit |-> NoLimit, input |-> cur,
               out |-> SurveyAnalyzer_create_subset(column, value, cur)]
    /\ pc' = "returned"
    /\ UNCHANGED <<data, cur, repl>>

\* analyzer.get_distribution(column, data=cur[, limit=n])
CallGetDistribution(column, limit) ==
    /\ pc = "ready"
    /\ ret' = [op |-> "distribution", impl |-> "SurveyAnalyzer",
               column |-> column, value |-> <<>>, exact |-> TRUE,
               limit |-> limit, input |-> cur,
               out |-> get_distribution(column, cur,
                          IF limit = NoLimit THEN DEFAULT_LIMIT ELSE limit[1])]
    /\ pc' = "returned"
    /\ UNCHANGED <<data, cur, repl>>

\* analyzer.create_subset(column_name, option_value, exact_match): the
\* methods of StackOverflowAnalyzer take no table and work on the analyzer's
\* data; their caller holds no other table
CallAnalyzerCreateSubset(column, value, exact) ==
    /\ pc = "ready"
    /\ cur = data
    /\ ret' = [op |-> "create_subset", impl |-> "Analyzer",
               column |-> column, value |-> value, exact |-> exact,
               limit |-> NoLimit, input |-> data,
               out |-> Analyzer_create_subset(column, value, exact, data)]
    /\ pc' = "returned"
    /\ UNCHANGED <<data, cur, repl>>

\* analyzer.get_answer_distribution(column_name[, top_n])
CallGetAnswerDistribution(column, top_n) ==
    /\ pc = "ready"
    /\ cur = data
    /\ ret' = [op |-> "distribution", impl |-> "Analyzer",
               column |-> column, value |-> <<>>, exact |-> TRUE,
               limit |-> top_n, input |-> data,
               out |-> get_answer_distribution(column, top_n, data)]
    /\ pc' = "returned"
    /\ UNCHANGED <<data, cur, repl>>

\* analyzer.get_unique_values(column, data=cur)
CallGetUniqueValues(column) ==
    /\ pc = "ready"
    /\ ret' = [op |-> "unique", impl |-> "SurveyAnalyzer",
               column |-> column, value |-> <<>>, exact |-> TRUE,
               limit |-> NoLimit, input |-> cur,
               out |-> get_unique_values(column, cur)]
    /\ pc' = "returned"
    /\ UNCHANGED <<data, cur, repl>>

\* analyzer.get_unique_options(column_name)
CallGetUniqueOptions(column) ==
    /\ pc = "ready"
    /\ cur = data
    /\ ret' = [op |-> "unique", impl |-> "Analyzer",
               column |-> column, value |-> <<>>, exact |-> TRUE,
               limit |-> NoLimit, input |-> data,
               out |-> get_unique_options(column, data)]
    /\ pc' = "returned"
    /\ UNCHANGED <<data, cur, repl>>

\* the terms a caller searches the questions for
SearchTerms ==
    { <<>>, <<"a">>, <<"A">>, <<"b">>, <<"g">>, <<".">>, <<"+">>,
      <<"a", " ">>, <<"b", ".">> }

\* analyzer.search_questions(search_term, case_sensitive)
CallSearchQuestions(term, case_sensitive) ==
    /\ pc = "ready"
    /\ cur = data
    /\ ret' = [op |-> "search", impl |-> "SurveyAnalyzer",
               column |-> "", value |-> term, exact |-> case_sensitive,
               limit |-> NoLimit, input |-> data,
               out |-> search_questions(term, case_sensitive)]
    /\ pc' = "returned"
    /\ UNCHANGED <<data, cur, repl>>

\* analyzer.search_questions(search_term, case_sensitive) of
\* StackOverflowAnalyzer
CallAnalyzerSearchQuestions(term, case_sensitive) ==
    /\ pc = "ready"
    /\ cur = data
    /\ ret' = [op |-> "search", impl |-> "Analyzer",
               column |-> "", value |-> term, exact |-> case_sensitive,
               limit |-> NoLimit, input |-> data,
               out |-> Analyzer_search_questions(term, case_sensitive)]
    /\ pc' = "returned"
    /\ UNCHANGED <<data, cur, repl>>

\* the values a caller narrows by, one filter after another
ChainValues == {<<"a">>, <<"b">>}

\* create_subset(column2, value2, data=create_subset(column1, value1)): the
\* second filter on the table the first returned; an error of the first ends
\* the chain
create_subset_chain(column1, value1, column2, value2, df) ==
    LET first == SurveyAnalyzer_create_subset(column1, value1, df)
    IN  IF first.kind = "error" THEN first
        ELSE SurveyAnalyzer_create_subset(column2, value2, first.table)

CallCreateSubsetChain(column1, value1, column2, value2) ==
    /\ pc = "ready"
    /\ cur = data
    /\ ret' = [op |-> "chain", impl |-> "SurveyAnalyzer",
               column |-> column2, value |-> value2, exact |-> TRUE,
               limit |-> NoLimit, input |-> data,
               first |-> [column |-> column1, value |-> value1],
               out |-> create_subset_chain(column1, value1, column2, value2, data)]
    /\ pc' = "returned"
    /\ UNCHANGED <<data, cur, repl>>

\* the caller keeps the table a subset call returned as its current table
KeepSubset ==
    /\ pc = "returned"
    /\ ret.op = "create_subset"
    /\ ret.impl = "SurveyAnalyzer"
    /\ ret.out.kind = "table"
    /\ cur' = ret.out.table
    /\ ret' = NoCall
    /\ pc' = "ready"
    /\ UNCHANGED <<data, repl>>

\* the caller goes on with the tables it had (a result dropped, an error
\* caught and reported)
Continue ==
    /\ pc = "returned"
    /\ ret' = NoCall
    /\ pc' = "ready"
    /\ UNCHANGED <<data, cur, repl>>

Next ==
    \/ \E c \in ColumnNames, v \in TargetValues : CallCreateSubset(c, v)
    \/ \E c \in ColumnNames, n \in LimitArgs : CallGetDistribution(c, n)
    \/ \E c \in ColumnNames : CallGetUniqueValues(c)
    \/ \E c \in ColumnNames, v \in TargetValues, e \in BOOLEAN :
           CallAnalyzerCreateSubset(c, v, e)
    \/ \E c \in ColumnNames, n \in LimitArgs : CallGetAnswerDistribution(c, n)
    \/ \E c \in ColumnNames : CallGetUniqueOptions(c)
    \/ \E c1 \in DataColumns, v1 \in ChainValues,
          c2 \in DataColumns, v2 \in ChainValues :
           CallCreateSubsetChain(c1, v1, c2, v2)
    \/ \E t \in SearchTerms, cs \in BOOLEAN : CallSearchQuestions(t, cs)
    \/ \E t \in SearchTerms, cs \in BOOLEAN : CallAnalyzerSearchQuestions(t, cs)
    \/ KeepSubset
    \/ Continue

Spec == Init /\ [][Next]_vars

(***************************************************************************)
(* The interactive session of StackOverflowSurveyAnalyzer                  *)
(* (interactive_mode): cur is current_data, repl.current_subset_name the   *)
(* name shown at the prompt, ret the last line typed and what was printed. *)
(***************************************************************************)
\* the largest number of rows of the dataset of a session
MaxSessionRows == 2

\* the datasets a session is started on: rows with every kind of cell, an
\* unanswered row among them
SessionRows ==
    { Row(<<"a", ";", "b">>, <<"a">>, NaN, <<"a">>),
      Row(NaN, NaN, NaN, NaN),
      Row(<<"a", ";", "a", ";">>, <<"A">>, <<"a", " ">>, <<"a">>) }

SessionTables == {read_csv(rows) : rows \in SeqsUpTo(SessionRows, MaxSessionRows)}

\* the values of current_subset_name, as the strings they are
FullDataset == <<"F", "u", "l", "l", " ", "D", "a", "t", "a", "s", "e", "t">>

QUIT == <<"Q", "U", "I", "T">>

NoChanges == <<"N", "o", " ", "c", "h", "a", "n", "g", "e", "s">>

\* f"Filtered by {column}='{value}'"
FilteredBy(column, value) ==
    <<"F", "i", "l", "t", "e", "r", "e", "d", " ", "b", "y", " ">>
        \o NameChars(column) \o <<"=", "'">> \o value \o <<"'">>

\* a variant without the short form
QuitCommands_Long == { <<"q", "u", "i", "t">>, <<"e", "x", "i", "t">> }

\* ['quit', 'exit', 'q']
QuitCommands == { <<"q", "u", "i", "t">>, <<"e", "x", "i", "t">>, <<"q">> }

\* Ctrl-C at a prompt: input() raises KeyboardInterrupt
CtrlC == <<"^C">>

\* the end of the input: input() raises EOFError
EndOfInput == <<"^D">>

\* input() raises instead of returning what was typed
input_raises(typed) == typed \in {CtrlC, EndOfInput}

input_exception(typed) == IF typed = CtrlC THEN "KeyboardInterrupt" ELSE "EOFError"

\* what a handler hands back: its return value and what it printed, or the
\* exception it lets through
Return(current_data, name, said) ==
    [kind |-> "return", data |-> current_data, name |-> name, said |-> said]

Propagate(exception) == [kind |-> "raise", exception |-> exception]

\* the answers typed at the prompts of a handler when none is asked
NoAnswers == [column |-> "", value |-> <<>>, use |-> <<>>, limit |-> <<>>, term |-> <<>>]

\* str.isdigit() and int() for the limits typed
Digits == {"0", "1", "2"}

isdigit(s) == s # <<>> /\ \A i \in 1..Len(s) : s[i] \in Digits

DigitValue(c) == CASE c = "0" -> 0 [] c = "1" -> 1 [] c = "2" -> 2

RECURSIVE int(_)
int(s) == IF s = <<>> THEN 0 ELSE 10 * int(SubSeq(s, 1, Len(s) - 1)) + DigitValue(s[Len(s)])

\* what _handle_search_command prints of the results
show_results(current_data, name, results) ==
    IF results.kind = "error" THEN Propagate(results.error)
    ELSE IF results.questions # <<>>
    THEN Return(current_data, name, <<"Found matching questions">>)
    ELSE Return(current_data, name, <<"No matching questions found.">>)

\* _handle_search_command: the term typed, stripped; searched when not empty
handle_search_command(current_data, name, answers) ==
    IF input_raises(answers.term) THEN Propagate(input_exception(answers.term))
    ELSE IF Strip(answers.term) = <<>> THEN Return(current_data, name, <<>>)
    ELSE show_results(current_data, name, search_questions(Strip(answers.term), FALSE))

\* display_distribution(column, data, limit): prints the distribution, an
\* error of get_distribution goes through it
display_distribution(current_data, name, dist_data) ==
    IF dist_data.kind = "error" THEN Propagate(dist_data.error)
    ELSE Return(current_data, name, <<"Distribution Analysis">>)

\* limit = int(limit) if limit.isdigit() else 20
limit_typed(text) == IF isdigit(text) THEN int(text) ELSE DEFAULT_LIMIT

\* _handle_distribution_command(current_data)
handle_distribution_command(current_data, name, answers) ==
    IF answers.column \in Columns(current_data)
    THEN IF input_raises(answers.limit) THEN Propagate(input_exception(answers.limit))
         ELSE display_distribution(current_data, name,
                  get_distribution(answers.column, current_data,
                                   limit_typed(Strip(answers.limit))))
    ELSE Return(current_data, name, <<"Column not found.">>)

\* _handle_subset_command once the subset is made: the confirmation is asked
\* for inside the try, an error of create_subset is printed
confirm_subset(current_data, column, value, use, subset) ==
    IF subset.kind = "error"
    THEN Return(current_data, NoChanges, <<"Error creating subset:", subset.error>>)
    ELSE IF input_raises(use) THEN Propagate(input_exception(use))
    ELSE IF Lower(Strip(use)) = <<"y">>
    THEN Return(subset.table, FilteredBy(column, value), <<"Created subset">>)
    ELSE Return(current_data, NoChanges, <<"Created subset">>)

\* _handle_subset_command once the values of the column are listed
filter_value(current_data, answers, value, unique_values) ==
    IF unique_values.kind = "error" THEN Propagate(unique_values.error)
    ELSE IF input_raises(answers.value) THEN Propagate(input_exception(answers.value))
    ELSE IF value = <<>> THEN Return(current_data, NoChanges, <<>>)
    ELSE confirm_subset(current_data, answers.column, value, answers.use,
             SurveyAnalyzer_create_subset(answers.column, value, current_data))

\* a variant that filters the full dataset whatever the current data
handle_subset_command_full(current_data, answers) ==
    IF answers.column \in Columns(current_data)
    THEN filter_value(data, answers, Strip(answers.value),
                      get_unique_values(answers.column, data))
    ELSE Return(current_data, NoChanges, <<"Column not found.">>)

\* _handle_subset_command(current_data): the new current data and its name,
\* or current_data and "No changes"
handle_subset_command(current_data, answers) ==
    IF answers.column \in Columns(current_data)
    THEN filter_value(current_data, answers, Strip(answers.value),
                      get_unique_values(answers.column, current_data))
    ELSE Return(current_data, NoChanges, <<"Column not found.">>)

\* a variant that takes whatever the handler hands back
take_subset_always(current_data, current_subset_name, handled) == handled

\* _execute_command, command '5': the subset is taken unless its name is
\* "No changes"
take_subset(current_data, current_subset_name, handled) ==
    IF handled.kind = "raise" THEN handled
    ELSE IF handled.name # NoChanges THEN handled
    ELSE Return(current_data, current_subset_name, handled.said)

\* _execute_command(command, current_data, current_subset_name)
execute_command(command, current_data, current_subset_name, answers) ==
    IF command \in QuitCommands THEN Return(current_data, QUIT, <<>>)
    ELSE IF command = <<"h", "e", "l", "p">>
    THEN Return(current_data, current_subset_name, <<"Commands:">>)
    ELSE IF command = <<"1">>
    THEN IF input_raises(answers.term) THEN Propagate(input_exception(answers.term))
         ELSE Return(current_data, current_subset_name, <<"Survey Structure">>)
    ELSE IF command = <<"2">>
    THEN handle_search_command(current_data, current_subset_name, answers)
    ELSE IF command = <<"3">>
    THEN Return(current_data, current_subset_name, <<"Question Types:">>)
    ELSE IF command = <<"4">>
    THEN handle_distribution_command(current_data, current_subset_name, answers)
    ELSE IF command = <<"5">>
    THEN take_subset(current_data, current_subset_name,
                     handle_subset_command(current_data, answers))
    ELSE IF command = <<"6">>
    THEN Return(current_data, current_subset_name, <<"Dataset Info:">>)
    ELSE Return(current_data, current_subset_name, <<"Invalid command.">>)

\* a variant whose loop is left by an exception of a command
assign_or_report_fatal(current_data, current_subset_name, executed) ==
    IF executed.kind = "raise"
    THEN [data |-> current_data, name |-> current_subset_name, running |-> FALSE,
          caught |-> executed.exception, said |-> <<>>]
    ELSE [data |-> executed.data, name |-> executed.name,
          running |-> executed.name # QUIT, caught |-> "", said |-> executed.said]

\* the try of interactive_mode: the pair is assigned when _execute_command
\* returns, an exception is reported and the loop goes on
assign_or_report(current_data, current_subset_name, executed) ==
    IF executed.kind = "raise"
    THEN [data |-> current_data, name |-> current_subset_name, running |-> TRUE,
          caught |-> executed.exception,
          said |-> IF executed.exception = "KeyboardInterrupt"
                   THEN <<"Operation interrupted. Type 'quit' to exit.">>
                   ELSE <<"Error:", executed.exception>>]
    ELSE IF executed.name = QUIT
    THEN [data |-> executed.data, name |-> executed.name, running |-> FALSE,
          caught |-> "", said |-> Append(executed.said, "Goodbye!")]
    ELSE [data |-> executed.data, name |-> executed.name, running |-> TRUE,
          caught |-> "", said |-> executed.said]

\* one turn of the loop of interactive_mode: the line typed at "Enter
\* command: ", the handler's prompts answered by answers
interactive_mode(line, answers) ==
    assign_or_report(cur, repl.current_subset_name,
        execute_command(Lower(Strip(line)), cur, repl.current_subset_name, answers))

\* the lines typed at the prompt of interactive_mode
quit == <<"q", "u", "i", "t">>

QuitLines ==
    { quit, <<"e", "x", "i", "t">>, <<"Q">>, <<" ", "Q", "u", "I", "T", " ">> }

PlainLines ==
    { <<"h", "e", "l", "p">>, <<"1">>, <<"3">>, <<"6">>, <<"7">>, <<>>,
      <<"q", " ", "x">> }

\* the columns named in a session
SessionColumns == {"Langs", "Age", "Extra", "Nope"}

SearchAnswers == { <<"a">>, <<"+">>, <<" ">>, CtrlC, EndOfInput }

LimitAnswers == { <<>>, <<"1">>, <<"x">>, CtrlC, EndOfInput }

ValueAnswers == { <<>>, <<"a">>, <<"A", " ">>, QUIT, CtrlC }

UseAnswers == { <<"y">>, <<" ", "Y">>, <<"n">>, <<"y", "e", "s">>, CtrlC, EndOfInput }

\* the command typed and what became of it
Typed(impl, line, answers, turn) ==
    [op |-> "command", impl |-> impl, line |-> line, answers |-> answers,
     out |-> [said |-> turn.said, caught |-> turn.caught]]

TurnTo(line, answers, turn) ==
    /\ pc = "prompt"
    /\ repl.impl = "A"
    /\ cur' = turn.data
    /\ repl' = [repl EXCEPT !.current_subset_name = turn.name]
    /\ pc' = IF ~turn.running THEN "ended"
             ELSE IF turn.caught = "EOFError" THEN "exhausted"
             ELSE "prompt"
    /\ ret' = Typed("A", line, answers, turn)
    /\ UNCHANGED data

Turn(line, answers) == TurnTo(line, answers, interactive_mode(line, answers))

EnterQuit == \E line \in QuitLines : Turn(line, NoAnswers)

\* '1' asks for a question type, the other lines ask nothing
EnterPlain ==
    \E line \in PlainLines, term \in {<<>>, CtrlC} :
        /\ line # <<"1">> => term = <<>>
        /\ Turn(line, [NoAnswers EXCEPT !.term = term])

EnterSearch ==
    \E term \in SearchAnswers : Turn(<<"2">>, [NoAnswers EXCEPT !.term = term])

\* the limit is asked for when the column is one of current_data
EnterDistribution ==
    \E column \in SessionColumns, limit \in LimitAnswers :
        /\ column \notin Columns(cur) => limit = <<>>
        /\ Turn(<<"4">>, [NoAnswers EXCEPT !.column = column, !.limit = limit])

\* the value is asked for when the column is one of current_data and its
\* values could be listed, the confirmation when the subset was created
EnterSubset ==
    \E column \in SessionColumns, value \in ValueAnswers, use \in UseAnswers :
        /\ (\/ column \notin Columns(cur)
            \/ get_unique_values(column, cur).kind = "error") => value = <<>>
        /\ (\/ input_raises(value)
            \/ Strip(value) = <<>>
            \/ SurveyAnalyzer_create_subset(column, Strip(value), cur).kind = "error")
           => use = <<"n">>
        /\ Turn(<<" ", "5">>, [NoAnswers EXCEPT !.column = column, !.value = value,
                                                !.use = use])

\* input() at "Enter command: " is outside the try of interactive_mode: the
\* end of the input and Ctrl-C there leave the loop by the exception; when a
\* prompt of a handler met the end of the input, that is all that is left
PromptAborted ==
    \E line \in {EndOfInput, CtrlC} :
        /\ pc \in {"prompt", "exhausted"}
        /\ pc = "exhausted" => line = EndOfInput
        /\ repl.impl = "A"
        /\ pc' = "ended"
        /\ ret' = [op |-> "abort", impl |-> "A", line |-> line, answers |-> NoAnswers,
                   out |-> [said |-> <<>>,
                            caught |-> IF line = CtrlC THEN "KeyboardInterrupt"
                                       ELSE "EOFError"]]
        /\ UNCHANGED <<data, cur, repl>>

(***************************************************************************)
(* The command loop of StackOverflowCLI (cli.py): the analyzer keeps the   *)
(* one dataset, a subset made by a command is counted and dropped.         *)
(***************************************************************************)
\* str.split(): the words between runs of white space
RECURSIVE WordsFrom(_, _)
WordsFrom(s, word) ==
    IF s = <<>> THEN (IF word = <<>> THEN <<>> ELSE <<word>>)
    ELSE IF IsSpace(Head(s))
    THEN (IF word = <<>> THEN <<>> ELSE <<word>>) \o WordsFrom(Tail(s), <<>>)
    ELSE WordsFrom(Tail(s), Append(word, Head(s)))

split(s) == WordsFrom(s, <<>>)

\* ' '.join(words)
RECURSIVE join(_)
join(words) ==
    IF words = <<>> THEN <<>>
    ELSE IF Len(words) = 1 THEN words[1]
    ELSE words[1] \o <<" ">> \o join(Tail(words))

\* str.strip('"\''): quotes taken off both ends
IsQuote(c) == c \in {"\"", "'"}

RECURSIVE StripQuotes(_)
StripQuotes(s) ==
    IF s = <<>> THEN s
    ELSE IF IsQuote(Head(s)) THEN StripQuotes(Tail(s))
    ELSE IF IsQuote(s[Len(s)]) THEN StripQuotes(SubSeq(s, 1, Len(s) - 1))
    ELSE s

\* int(args[1]): the number, or ValueError and top_n stays None
ParseTopN(s) ==
    IF isdigit(s) THEN <<int(s)>>
    ELSE IF s # <<>> /\ Head(s) = "-" /\ isdigit(Tail(s)) THEN <<0 - int(Tail(s))>>
    ELSE IF s # <<>> /\ Head(s) = "+" /\ isdigit(Tail(s)) THEN <<int(Tail(s))>>
    ELSE NoLimit

\* the column a word names
ColumnOf(word) ==
    IF \E c \in ColumnNames : NameChars(c) = word
    THEN CHOOSE c \in ColumnNames : NameChars(c) = word
    ELSE "Nope"

\* what process_command hands back: whether to go on, what it printed and
\* the exception it caught
Processed(continue, said, caught) ==
    [continue |-> continue, said |-> said, caught |-> caught]

\* process_command(command) on the analyzer's dataset df
process_command(command, df) ==
    LET parts == split(Strip(command))
        cmd   == Lower(parts[1])
        args  == Tail(parts)
    IN  IF parts = <<>> THEN Processed(TRUE, <<>>, "")
        ELSE IF cmd \in QuitCommands THEN Processed(FALSE, <<"Goodbye!">>, "")
        ELSE IF cmd \in {<<"h", "e", "l", "p">>, <<"h">>, <<"?">>}
        THEN Processed(TRUE, <<"COMMANDS">>, "")
        ELSE IF cmd = <<"s", "e", "a", "r", "c", "h">>
        THEN IF args = <<>> THEN Processed(TRUE, <<"Usage: search <term>">>, "")
             ELSE LET matches == Analyzer_search_questions(join(args), FALSE)
                  IN  IF matches.kind = "error"
                      THEN Processed(TRUE, <<"Error executing command:", matches.error>>,
                                     matches.error)
                      ELSE Processed(TRUE, <<"Found">>, "")
        ELSE IF cmd = <<"o", "p", "t", "i", "o", "n", "s">>
        THEN IF args = <<>> THEN Processed(TRUE, <<"Usage: options <column_name>">>, "")
             ELSE LET options == get_unique_options(ColumnOf(args[1]), df)
                  IN  IF options.kind = "error"
                      THEN Processed(TRUE, <<"Error getting options:", options.error>>,
                                     options.error)
                      ELSE Processed(TRUE, <<"Unique options">>, "")
        ELSE IF cmd \in {<<"d", "i", "s", "t">>}
        THEN IF args = <<>> THEN Processed(TRUE, <<"Usage: dist <column_name> [top_n]">>, "")
             ELSE LET top_n     == IF Len(args) > 1 THEN ParseTopN(args[2]) ELSE NoLimit
                      dist_data == get_answer_distribution(ColumnOf(args[1]), top_n, df)
                  IN  IF dist_data.kind = "error"
                      THEN Processed(TRUE, <<"Error displaying distribution:",
                                             dist_data.error>>, dist_data.error)
                      ELSE Processed(TRUE, <<"ANSWER DISTRIBUTION">>, "")
        ELSE IF cmd = <<"s", "u", "b", "s", "e", "t">>
        THEN IF Len(args) < 2
             THEN Processed(TRUE, <<"Usage: subset <column_name> <value>">>, "")
             ELSE LET value  == StripQuotes(join(Tail(args)))
                      subset == Analyzer_create_subset(ColumnOf(args[1]), value, TRUE, df)
                  IN  IF subset.kind = "error"
                      THEN Processed(TRUE, <<"Error executing command:", subset.error>>,
                                     subset.error)
                      ELSE Processed(TRUE, <<"Subset created">>, "")
        ELSE Processed(TRUE, <<"Unknown command">>, "")

\* the lines typed at "so-analyzer> "
search == <<"s", "e", "a", "r", "c", "h">>

options == <<"o", "p", "t", "i", "o", "n", "s">>

dist == <<"d", "i", "s", "t">>

subset == <<"s", "u", "b", "s", "e", "t">>

SearchLines ==
    {search} \cup {join(<<search, term>>) : term \in {<<"a">>, <<"+">>, <<"A", "g", "e">>}}

OptionsLines == {options} \cup {join(<<options, NameChars(c)>>) : c \in SessionColumns}

TopNWords == { <<"1">>, <<"0">>, <<"-", "1">>, <<"x">> }

DistLines ==
    {dist, <<"D", "I", "S", "T", " ", "A", "g", "e">>}
        \cup {join(<<dist, NameChars(c)>>) : c \in SessionColumns}
        \cup {join(<<dist, NameChars(c), n>>) : c \in SessionColumns, n \in TopNWords}

ValueWords == { <<"a">>, <<"A">>, <<"+">>, <<"'", "b", "'">>, <<"a", " ", "b">> }

SubsetLines ==
    {join(<<subset, NameChars(c)>>) : c \in SessionColumns}
        \cup {join(<<subset, NameChars(c), v>>) : c \in SessionColumns, v \in ValueWords}

\* one turn of the loop of run: the line is stripped and processed; an
\* exception of a command is caught inside process_command
CliTurn(line) ==
    LET processed == process_command(Strip(line), data)
    IN  /\ pc = "prompt"
        /\ repl.impl = "B"
        /\ pc' = IF processed.continue THEN "prompt" ELSE "ended"
        /\ ret' = Typed("B", line, NoAnswers, processed)
        /\ UNCHANGED <<data, cur, repl>>

CliQuit == \E line \in QuitLines : CliTurn(line)

CliPlain == \E line \in PlainLines \cup {<<"?">>, <<" ">>} : CliTurn(line)

CliSearch == \E line \in SearchLines : CliTurn(line)

CliOptions == \E line \in OptionsLines : CliTurn(line)

CliDist == \E line \in DistLines : CliTurn(line)

CliSubset == \E line \in SubsetLines : CliTurn(line)

\* run catches both exceptions of input(): Ctrl-C goes on, the end of the
\* input says goodbye and leaves the loop
CliPromptAborted ==
    \E line \in {EndOfInput, CtrlC} :
        /\ pc = "prompt"
        /\ repl.impl = "B"
        /\ pc' = IF line = CtrlC THEN "prompt" ELSE "ended"
        /\ ret' = [op |-> "abort", impl |-> "B", line |-> line, answers |-> NoAnswers,
                   out |-> [said |-> IF line = CtrlC
                                     THEN <<"Interrupted. Type 'quit' to exit properly.">>
                                     ELSE <<"Goodbye!">>,
                            caught |-> IF line = CtrlC THEN "KeyboardInterrupt"
                                       ELSE "EOFError"]]
        /\ UNCHANGED <<data, cur, repl>>

\* a session starts on the full dataset, named "Full Dataset"
SessionInit ==
    /\ data \in SessionTables
    /\ cur = data
    /\ ret = NoCall
    /\ pc = "prompt"
    /\ repl \in { [impl |-> "A", current_subset_name |-> FullDataset],
                  [impl |-> "B", current_subset_name |-> <<>>] }

SessionNext ==
    \/ EnterQuit
    \/ EnterPlain
    \/ EnterSearch
    \/ EnterDistribution
    \/ EnterSubset
    \/ PromptAborted
    \/ CliQuit
    \/ CliPlain
    \/ CliSearch
    \/ CliOptions
    \/ CliDist
    \/ CliSubset
    \/ CliPromptAborted

SessionSpec == SessionInit /\ [][SessionNext]_vars

(***************************************************************************)
(* What the specification says of a cell, a filter and a distribution.     *)
(***************************************************************************)
\* the options of a cell: of a missing or empty cell none; of a MULTI cell
\* the pieces between ';', trimmed, the empty ones dropped; of any other cell
\* the trimmed cell
ExtractedOptions(cell, type) ==
    IF cell = NaN \/ cell = <<>> THEN <<>>
    ELSE IF type = "MC"
    THEN LET pieces == Split(cell)
         IN  NonEmpty([i \in 1..Len(pieces) |-> Strip(pieces[i])])
    ELSE <<Strip(cell)>>

\* a row matches (column, value) in EXACT mode
RowMatchesExact(row, column, value) ==
    IF schema_dict_type(column) = "MC"
    THEN InSeq(Strip(value), ExtractedOptions(row[column], "MC"))
    ELSE row[column] = value

\* the rows of a table that match (column, value) in EXACT mode, in order
ExactRows(rows, column, value) ==
    SelectRows(rows, [i \in 1..Len(rows) |-> RowMatchesExact(rows[i], column, value)])

\* every cell of the column is missing
AllMissing(df, column) == \A i \in 1..NRows(df) : df.rows[i][column] = NaN

\* the number of rows with an answer in the column
Answered(df, column) ==
    Cardinality({i \in 1..NRows(df) : df.rows[i][column] # NaN})

\* the answers of a column in the order they are met: the trimmed pieces of
\* the cells of a MULTI column, the cells of any other column
Selections(df, column) ==
    IF schema_dict_type(column) = "MC"
    THEN all_choices(dropna(df.rows, column))
    ELSE dropna(df.rows, column)

\* the distinct options of a column
DistinctOptions(df, column) == SeqToSet(Selections(df, column)) \ {<<>>}

\* how often an option was selected
Occurrences(df, column, option) ==
    LET sel == Selections(df, column)
    IN  Cardinality({i \in 1..Len(sel) : sel[i] = option})

\* where an option is met first
FirstSeen(df, column, option) ==
    LET sel == Selections(df, column)
    IN  IF InSeq(option, sel)
        THEN CHOOSE i \in 1..Len(sel) :
                 sel[i] = option /\ \A j \in 1..(i - 1) : sel[j] # option
        ELSE 0

\* the percentage is count / base * 100
IsPercentageOf(p, count, base) ==
    base # 0 /\ p.den # 0 /\ p.num * base = 100 * count * p.den

\* a call of the named operation has returned, on a table with the column
Returned(op) ==
    pc = "returned" /\ ret.op = op /\ ret.column \in Columns(ret.input)

\* a distribution call has returned a distribution
Distributed == Returned("distribution") /\ ret.out.kind = "dist"

EntryOptions(entries) == {entries[i].option : i \in 1..Len(entries)}

(***************************************************************************)
(* The claims.                                                             *)
(***************************************************************************)
\* C1: an EXACT filter on a MULTI column returns exactly the rows one of
\* whose extracted options (split on ';', trimmed, empty pieces dropped)
\* equals the trimmed target; a row whose cell only contains the target
\* inside a longer option is not returned.  Stated for a target that is not
\* empty and carries no surrounding whitespace, and a column that holds
\* strings.
C1_MultiExactFilter ==
    (/\ Returned("create_subset")
     /\ ret.exact
     /\ schema_dict_type(ret.column) = "MC"
     /\ ret.value # <<>>
     /\ Strip(ret.value) = ret.value
     /\ ret.input.dtype[ret.column] = "object")
    => /\ ret.out.kind = "table"
       /\ ret.out.table.rows = ExactRows(ret.input.rows, ret.column, ret.value)

\* C2: in the distribution of a column that is not MULTI every entry has
\* percentage = count / total_responses * 100, total_responses the number
\* of rows of the table, the rows with a missing cell included.
C2_SinglePercentageOfTotal ==
    (Distributed /\ schema_dict_type(ret.column) # "MC")
    => \A i \in 1..Len(ret.out.distribution) :
           LET e == ret.out.distribution[i]
           IN  /\ e.count = Occurrences(ret.input, ret.column, e.option)
               /\ IsPercentageOf(e.percentage, e.count, NRows(ret.input))

\* C3: in the distribution of a MULTI column every entry has percentage =
\* count / valid_responses * 100, valid_responses the number of rows that
\* answered (not the number of selections, not the number of rows).
C3_MultiPercentageOfValid ==
    (Distributed /\ schema_dict_type(ret.column) = "MC")
    => \A i \in 1..Len(ret.out.distribution) :
           LET e == ret.out.distribution[i]
           IN  /\ e.count = Occurrences(ret.input, ret.column, e.option)
               /\ IsPercentageOf(e.percentage, e.count,
                                 Answered(ret.input, ret.column))

\* C4: the options of a MULTI column are the trimmed non-empty pieces of its
\* cells: neither the distribution nor the list of unique values holds the
\* empty string as an option, and each option they hold is an extracted
\* option of some cell.
C4_MultiExtraction ==
    (/\ pc = "returned"
     /\ ret.op \in {"distribution", "unique"}
     /\ ret.column \in Columns(ret.input)
     /\ schema_dict_type(ret.column) = "MC")
    => LET extracted ==
               UNION {SeqToSet(ExtractedOptions(ret.input.rows[i][ret.column], "MC")) :
                          i \in 1..NRows(ret.input)}
       IN  /\ ret.out.kind = "dist" => EntryOptions(ret.out.distribution) \subseteq extracted
           /\ ret.out.kind = "values" => SeqToSet(ret.out.values) = extracted

\* C5: the target of a filter is a literal string: in every match mode and
\* for every column type each returned row holds the target as literal text
\* (letter case aside in SUBSTRING mode), and the filter never fails with a
\* pattern error.
C5_LiteralTarget ==
    Returned("create_subset")
    => /\ ~(ret.out.kind = "error" /\ ret.out.error = "re.error")
       /\ ret.out.kind = "table" =>
            \A i \in 1..NRows(ret.out.table) :
                LET cell == ret.out.table.rows[i][ret.column]
                IN  /\ cell # NaN
                    /\ IF ret.exact THEN Contains(cell, ret.value)
                       ELSE Contains(Lower(cell), Lower(ret.value))

\* C6: a subset or distribution call naming a column the table does not
\* have (a schema question with no data column included, and also when the
\* table is a subset the caller kept) fails with the column-not-found error
\* that names the column, and returns no table or distribution.
C6_ColumnNotFound ==
    (/\ pc = "returned"
     /\ ret.op \in {"create_subset", "distribution"}
     /\ ret.column \notin Columns(ret.input))
    => /\ ret.out.kind = "error"
       /\ ret.out.error = "ValueError"
       /\ ret.out.message[1] = "Column"
       /\ ret.out.message[2] = ret.column
       /\ ret.out.message[3] = "not found in data"

\* the distribution of a schema question absent from the data, asked of a
\* subset the caller kept
C6_Witness ==
    /\ pc = "returned"
    /\ ret.op = "distribution"
    /\ ret.column = "Ghost"
    /\ ret.input # data
    /\ ret.out.kind = "error"

\* C7: with or without a limit the entries of a distribution are ordered by
\* count descending, entries of equal count in the order their options are
\* first met scanning the rows.
C7_RankedByCount ==
    Distributed
    => \A i, j \in 1..Len(ret.out.distribution) :
           i < j =>
             LET a == ret.out.distribution[i]
                 b == ret.out.distribution[j]
             IN  \/ a.count > b.count
                 \/ /\ a.count = b.count
                    /\ FirstSeen(ret.input, ret.column, a.option)
                         < FirstSeen(ret.input, ret.column, b.option)

\* C8: with a limit n the distribution holds at most n entries, the n
\* highest ranked; with no limit it holds an entry for every distinct option
\* of the column, however many there are.
C8_LimitKeepsTop ==
    Distributed
    => LET entries == ret.out.distribution
           kept    == EntryOptions(entries)
       IN  /\ ret.limit = NoLimit =>
                DistinctOptions(ret.input, ret.column) \subseteq kept
           /\ (ret.limit # NoLimit /\ ret.limit[1] >= 1) =>
                /\ Len(entries) <= ret.limit[1]
                /\ \/ Len(entries) = ret.limit[1]
                   \/ DistinctOptions(ret.input, ret.column) \subseteq kept
                /\ \A i \in 1..Len(entries) :
                     \A o \in DistinctOptions(ret.input, ret.column) \ kept :
                        Occurrences(ret.input, ret.column, o) <= entries[i].count

\* C9: the distribution never fails with a division error; of a declared
\* column with no answer (no row, or every cell missing) it returns
\* total_responses = the number of rows, valid_responses = 0 and no entry.
C9_NoDivisionError ==
    /\ (pc = "returned" /\ ret.op = "distribution")
       => ~(ret.out.kind = "error" /\ ret.out.error = "ZeroDivisionError")
    /\ (/\ Returned("distribution")
        /\ schema_dict_type(ret.column) \in {"SC", "MC", "TE"}
        /\ AllMissing(ret.input, ret.column))
       => /\ ret.out.kind = "dist"
          /\ ret.out.total_responses = NRows(ret.input)
          /\ ret.out.valid_responses = 0
          /\ ret.out.distribution = <<>>

\* the distribution of a MULTI column of a table with rows, every cell of
\* the column missing
C9_Witness ==
    /\ Distributed
    /\ ret.impl = "Analyzer"
    /\ ret.column = "Langs"
    /\ NRows(ret.input) > 0
    /\ AllMissing(ret.input, ret.column)

\* C10: filtering composes: the table one subset call returns is a valid
\* input of another, and filter(filter(T, c1, v1), c2, v2) is exactly the rows
\* of T that satisfy both predicates, in the order of T; a distribution of a
\* subset reports the number of rows of the subset as total_responses.
\* Stated for columns that hold strings.
C10_ChainedFilters ==
    /\ (/\ pc = "returned"
        /\ ret.op = "chain"
        /\ data.dtype[ret.first.column] = "object"
        /\ data.dtype[ret.column] = "object")
       => /\ ret.out.kind = "table"
          /\ ret.out.table.rows =
                ExactRows(ExactRows(data.rows, ret.first.column, ret.first.value),
                          ret.column, ret.value)
    /\ Distributed => ret.out.total_responses = NRows(ret.input)

\* the same filter applied to the table a filter returned
Refilter ==
    IF ret.impl = "SurveyAnalyzer"
    THEN SurveyAnalyzer_create_subset(ret.column, ret.value, ret.out.table)
    ELSE Analyzer_create_subset(ret.column, ret.value, ret.exact, ret.out.table)

\* C11: EXACT filtering is idempotent: the filter that returned a table,
\* applied with the same column and value to that table, returns a table
\* with the same rows in the same order; so does a chain of twice the same
\* filter compared with the filter applied once.
C11_ExactIdempotent ==
    /\ (/\ pc = "returned"
        /\ ret.op = "create_subset"
        /\ ret.exact
        /\ ret.out.kind = "table")
       => /\ Refilter.kind = "table"
          /\ Refilter.table.rows = ret.out.table.rows
    /\ (/\ pc = "returned"
        /\ ret.op = "chain"
        /\ ret.first = [column |-> ret.column, value |-> ret.value]
        /\ SurveyAnalyzer_create_subset(ret.column, ret.value, ret.input).kind = "table")
       => /\ ret.out.kind = "table"
          /\ ret.out.table.rows =
                 SurveyAnalyzer_create_subset(ret.column, ret.value, ret.input).table.rows

\* a chain of twice the same filter returned some rows of a table and left
\* others out
C11_Witness ==
    /\ pc = "returned"
    /\ ret.op = "chain"
    /\ ret.first = [column |-> ret.column, value |-> ret.value]
    /\ ret.out.kind = "table"
    /\ ret.out.table.rows # <<>>
    /\ Len(ret.out.table.rows) < NRows(ret.input)

\* sub is seq with some of its elements left out
RECURSIVE IsSubsequence(_, _)
IsSubsequence(sub, seq) ==
    IF sub = <<>> THEN TRUE
    ELSE IF seq = <<>> THEN FALSE
    ELSE IF Head(sub) = Head(seq) THEN IsSubsequence(Tail(sub), Tail(seq))
    ELSE IsSubsequence(sub, Tail(seq))

\* a target made of letters only
PlainTarget(value) ==
    value # <<>> /\ \A i \in 1..Len(value) : value[i] \in Letters

\* C12: a subset call returns a table, never an error, also when no row
\* matches; the table has the columns of the input, its rows are rows of the
\* input with their cells unchanged and in their order, and every one of
\* them holds the target in the column.  Stated for a column the schema
\* declares and a target made of letters.
C12_SubsetOfInput ==
    (/\ Returned("create_subset")
     /\ schema_dict_type(ret.column) \in {"SC", "MC", "TE"}
     /\ PlainTarget(ret.value))
    => /\ ret.out.kind = "table"
       /\ Columns(ret.out.table) = Columns(ret.input)
       /\ IsSubsequence(ret.out.table.rows, ret.input.rows)
       /\ \A i \in 1..Len(ret.out.table.rows) :
              /\ ret.out.table.rows[i][ret.column] # NaN
              /\ Contains(Lower(ret.out.table.rows[i][ret.column]), Lower(ret.value))

\* the number of rows whose cell of the column is neither missing nor empty
\* once trimmed
NonEmptyCells(df, column) ==
    Cardinality({i \in 1..NRows(df) :
                    /\ df.rows[i][column] # NaN
                    /\ Strip(df.rows[i][column]) # <<>>})

\* C13: in every distribution total_responses is the number of rows of the
\* table and valid_responses the number of rows whose cell of the column is
\* neither missing nor empty (a cell of whitespace only is empty); so
\* valid_responses <= total_responses.
C13_TotalAndValid ==
    Distributed
    => /\ ret.out.total_responses = NRows(ret.input)
       /\ ret.out.valid_responses = NonEmptyCells(ret.input, ret.column)
       /\ ret.out.valid_responses <= ret.out.total_responses

\* the limit of the call leaves room for every distinct answer of the
\* column: no limit cuts the result short
NotTruncated ==
    LET distinct == Cardinality(DistinctOptions(ret.input, ret.column))
    IN  \/ ret.limit = NoLimit /\ ret.impl = "Analyzer"
        \/ ret.limit = NoLimit /\ ret.impl = "SurveyAnalyzer"
                               /\ DEFAULT_LIMIT >= distinct
        \/ ret.limit # NoLimit /\ ret.limit[1] >= distinct

\* C14: in the distribution of a SINGLE column that no limit cuts short the
\* counts of the entries add up to valid_responses, and valid_responses <=
\* total_responses.
C14_SingleCountsSum ==
    (Distributed /\ schema_dict_type(ret.column) = "SC" /\ NotTruncated)
    => /\ SumCounts(ret.out.distribution) = ret.out.valid_responses
       /\ ret.out.valid_responses <= ret.out.total_responses

\* a SINGLE distribution of several entries, not cut short, of a table with
\* a row that has no answer
C14_Witness ==
    /\ Distributed
    /\ schema_dict_type(ret.column) = "SC"
    /\ NotTruncated
    /\ Len(ret.out.distribution) >= 2
    /\ ret.out.valid_responses >= 2
    /\ ret.out.valid_responses < ret.out.total_responses

\* every row with an answer in the column selected exactly one option
OneOptionEach(df, column) ==
    \A i \in 1..NRows(df) :
        df.rows[i][column] # NaN
        => Len(ExtractedOptions(df.rows[i][column], "MC")) = 1

\* C15: in the distribution of a MULTI column, computed with no limit, the
\* counts of the options add up to at least valid_responses, and to exactly
\* valid_responses if and only if every row with an answer selected exactly
\* one option.
C15_MultiCountsSum ==
    (/\ Distributed
     /\ schema_dict_type(ret.column) = "MC"
     /\ ret.limit = NoLimit
     /\ DEFAULT_LIMIT > Cardinality(DistinctOptions(ret.input, ret.column)))
    => /\ SumCounts(ret.out.distribution) >= ret.out.valid_responses
       /\ (SumCounts(ret.out.distribution) = ret.out.valid_responses
           <=> OneOptionEach(ret.input, ret.column))

\* the rows whose cell of the column holds the value as a substring, the
\* case of the letters set aside; a missing cell holds nothing
SubstringRows(rows, column, value) ==
    SelectRows(rows, [i \in 1..Len(rows) |->
                         /\ rows[i][column] # NaN
                         /\ Contains(Lower(rows[i][column]), Lower(value))])

\* C16: in SUBSTRING mode (exact_match = False), for a column of any declared
\* type, the rows returned are exactly the rows whose raw cell contains the
\* target as a literal substring, compared without regard to case; a row
\* with a missing cell is never returned.  Stated for a column that holds
\* strings.
C16_SubstringMode ==
    (/\ Returned("create_subset")
     /\ ~ret.exact
     /\ schema_dict_type(ret.column) \in {"SC", "MC", "TE"}
     /\ ret.input.dtype[ret.column] = "object")
    => /\ ret.out.kind = "table"
       /\ ret.out.table.rows = SubstringRows(ret.input.rows, ret.column, ret.value)

\* the rows whose cell of the column is the value, character for character
EqualRows(rows, column, value) ==
    SelectRows(rows, [i \in 1..Len(rows) |->
                         rows[i][column] # NaN /\ rows[i][column] = value])

\* C17: in EXACT mode on a SINGLE or TEXT column the rows returned are
\* exactly the rows whose raw cell equals the target, the case of the letters
\* and the surrounding whitespace counting; a row with a missing cell is never
\* returned.  The cells of a table are strings or missing.
C17_SingleExact ==
    (/\ Returned("create_subset")
     /\ ret.exact
     /\ schema_dict_type(ret.column) \in {"SC", "TE"})
    => /\ ret.out.kind = "table"
       /\ ret.out.table.rows = EqualRows(ret.input.rows, ret.column, ret.value)

\* an EXACT filter on a SINGLE or TEXT column returned a row and left out a
\* row with an answer that differs from the target only by case or by
\* surrounding whitespace
C17_Witness ==
    /\ Returned("create_subset")
    /\ ret.exact
    /\ schema_dict_type(ret.column) \in {"SC", "TE"}
    /\ ret.out.kind = "table"
    /\ ret.out.table.rows # <<>>
    /\ \E i \in 1..NRows(ret.input) :
          /\ ret.input.rows[i][ret.column] # NaN
          /\ ret.input.rows[i][ret.column] # ret.value
          /\ Lower(Strip(ret.input.rows[i][ret.column])) = Lower(Strip(ret.value))

\* C18: a distribution call with a malformed limit (zero or negative) on a
\* column of a table with rows is rejected with an error; it never returns a
\* distribution.
C18_MalformedLimitRejected ==
    (/\ Returned("distribution")
     /\ ret.input.rows # <<>>
     /\ ret.limit # NoLimit
     /\ ret.limit[1] <= 0)
    => /\ ret.out.kind = "error"
       /\ ret.out.error = "ValueError"

\* C19: no subset or distribution call modifies a table: in every step the
\* analyzer's dataset keeps its rows, their order and their cells, and so
\* does the table the caller holds, which changes only when the caller takes
\* the table a subset call returned in its place.
C19_TablesUnchanged ==
    [][/\ data' = data
       /\ \/ cur' = cur
          \/ /\ ret.op = "create_subset"
             /\ ret.out.kind = "table"
             /\ cur' = ret.out.table]_vars

\* a subset of a kept subset has been returned: three tables are held, the
\* dataset, the subset kept and the smaller subset of it
C19_Witness ==
    /\ pc = "returned"
    /\ ret.op = "create_subset"
    /\ ret.out.kind = "table"
    /\ cur # data
    /\ ret.input = cur
    /\ Len(ret.out.table.rows) < NRows(cur)
    /\ NRows(cur) < NRows(data)

\* C20: a column of the table that the schema does not declare is taken as
\* of unknown type, without error, by the subset and by the distribution
\* operation alike, and treated as a SINGLE/TEXT column: the filter returns
\* the rows whose whole cell equals the target, the distribution counts whole
\* cells and takes percentages over total_responses.
C20_UnregisteredColumn ==
    (/\ pc = "returned"
     /\ ret.column \in Columns(ret.input)
     /\ schema_dict_type(ret.column) = "Unknown")
    => /\ (ret.op = "create_subset" /\ ret.exact)
          => /\ ret.out.kind = "table"
             /\ ret.out.table.rows =
                    EqualRows(ret.input.rows, ret.column, ret.value)
       /\ ret.op = "distribution"
          => /\ ret.out.kind = "dist"
             /\ \A i \in 1..Len(ret.out.distribution) :
                   LET e == ret.out.distribution[i]
                   IN  /\ e.count = Occurrences(ret.input, ret.column, e.option)
                       /\ IsPercentageOf(e.percentage, e.count,
                                         ret.out.total_responses)

\* the distribution of the column of the call's table by the implementation
\* that was called, with room for every option
DistributionOfInput ==
    IF ret.impl = "SurveyAnalyzer"
    THEN get_distribution(ret.column, ret.input,
                          Len(Selections(ret.input, ret.column)) + 1)
    ELSE get_answer_distribution(ret.column, NoLimit, ret.input)

\* the count of an option in the entries of a distribution, 0 with no entry
CountIn(entries, option) ==
    IF IndexOf(entries, option, 1) = 0 THEN 0
    ELSE entries[IndexOf(entries, option, 1)].count

\* no cell of the column holds the same option twice
NoRepeatedOption(df, column) ==
    \A i \in 1..NRows(df) :
        LET opts == ExtractedOptions(df.rows[i][column], "MC")
        IN  \A j, k \in 1..Len(opts) : opts[j] = opts[k] => j = k

\* C21: the subset and the distribution operation agree on what an option
\* is: on a MULTI column an option has a positive count in the distribution
\* if and only if the EXACT filter for it returns a row, and when no cell
\* repeats an option the number of rows returned is the count of the option.
\* Stated for a target that is not empty and carries no surrounding
\* whitespace, and a column that holds strings.
C21_FilterAgreesWithDistribution ==
    (/\ Returned("create_subset")
     /\ ret.exact
     /\ schema_dict_type(ret.column) = "MC"
     /\ ret.value # <<>>
     /\ Strip(ret.value) = ret.value
     /\ ret.input.dtype[ret.column] = "object")
    => /\ ret.out.kind = "table"
       /\ DistributionOfInput.kind = "dist"
       /\ LET n == Len(ret.out.table.rows)
              c == CountIn(DistributionOfInput.distribution, ret.value)
          IN  /\ c > 0 <=> n > 0
              /\ NoRepeatedOption(ret.input, ret.column) => n = c

\* the questions whose text holds the term as a literal substring, the case
\* of the letters counting only when asked
QuestionsWith(term, case_sensitive) ==
    SelectRows(schema,
        [i \in 1..Len(schema) |->
            IF case_sensitive THEN Contains(schema[i].question_text, term)
            ELSE Contains(Lower(schema[i].question_text), Lower(term))])

\* C24: search_questions returns exactly the questions of the schema whose
\* text holds the search term as a literal substring, in schema order; the
\* case of the letters counts only when case_sensitive is set; the empty term
\* returns every question, and a term of pattern characters only the
\* questions that hold those characters.
C24_SearchLiteral ==
    (pc = "returned" /\ ret.op = "search")
    => /\ ret.out.kind = "questions"
       /\ ret.out.questions = QuestionsWith(ret.value, ret.exact)

\* two percentages are the same number
SamePercentage(p, q) == p.num * q.den = q.num * p.den

\* the first n entries of full, entry for entry
IsPrefixOfLength(got, full, n) ==
    /\ Len(got) = (IF n <= Len(full) THEN n ELSE Len(full))
    /\ \A i \in 1..Len(got) :
        /\ i <= Len(full)
        /\ got[i].option = full[i].option
        /\ got[i].count = full[i].count
        /\ SamePercentage(got[i].percentage, full[i].percentage)

\* C25: a limit only cuts the distribution short: the entries returned with
\* a limit n >= 1 are the first n entries of the distribution of the same
\* table and column computed without a limit, each with the same count and
\* the same percentage.
C25_LimitOnlyTruncates ==
    (/\ Distributed
     /\ ret.limit # NoLimit
     /\ ret.limit[1] >= 1
     /\ DistributionOfInput.kind = "dist")
    => IsPrefixOfLength(ret.out.distribution, DistributionOfInput.distribution,
                        ret.limit[1])

\* C26: every entry of every distribution, of a SINGLE or a MULTI column,
\* has a count of at least 1 and a percentage above 0 and at most 100, also
\* when a MULTI cell holds the same option more than once.
C26_EntriesInRange ==
    Distributed
    => \A i \in 1..Len(ret.out.distribution) :
          LET entry == ret.out.distribution[i]
          IN  /\ entry.count >= 1
              /\ entry.percentage.den > 0
              /\ entry.percentage.num > 0
              /\ entry.percentage.num <= 100 * entry.percentage.den

\* the SUBSTRING filter of StackOverflowAnalyzer for the column and target
\* of the call that has returned, on the same table
SubstringOfInput == Analyzer_create_subset(ret.column, ret.value, FALSE, ret.input)

\* C27: substring matching is never stricter than exact matching: for a
\* column of any declared type and a target that is not empty, every row
\* that the EXACT filter returns is returned by the SUBSTRING filter for the
\* same table, column and target.
C27_ExactWithinSubstring ==
    (/\ Returned("create_subset")
     /\ ret.impl = "Analyzer"
     /\ ret.exact
     /\ ret.value # <<>>
     /\ ret.out.kind = "table"
     /\ ret.out.table.rows # <<>>)
    => /\ SubstringOfInput.kind = "table"
       /\ \A i \in 1..Len(ret.out.table.rows) :
             InSeq(ret.out.table.rows[i], SubstringOfInput.table.rows)

\* what StackOverflowAnalyzer answers to the call that has returned from
\* StackOverflowSurveyAnalyzer: same table, same column, same target, no top_n
AnalyzerDistribution == get_answer_distribution(ret.column, NoLimit, ret.input)

AnalyzerSubset == Analyzer_create_subset(ret.column, ret.value, TRUE, ret.input)

\* two distributions report the same options, each with the same count and
\* the same percentage, whatever the order of the entries
SameEntries(a, b) ==
    /\ EntryOptions(a) = EntryOptions(b)
    /\ \A i \in 1..Len(a), j \in 1..Len(b) :
          a[i].option = b[j].option
          => /\ a[i].count = b[j].count
             /\ SamePercentage(a[i].percentage, b[j].percentage)

\* C30: the two analyzers are equivalent on the core operations: on the same
\* schema, table, column and target, get_distribution with a limit that
\* leaves room for every option and get_answer_distribution without top_n
\* report the same total_responses, valid_responses, counts and percentages,
\* and the two create_subset methods in exact mode return the same rows.
\* Stated for a column that the schema declares and that holds strings, and
\* for a target made of letters.
C30_ImplementationsAgree ==
    (/\ ret.impl = "SurveyAnalyzer"
     /\ ret.column \in Columns(ret.input)
     /\ schema_dict_type(ret.column) \in {"SC", "MC", "TE"}
     /\ ret.input.dtype[ret.column] = "object")
    => /\ (Distributed /\ NotTruncated)
          => /\ AnalyzerDistribution.kind = "dist"
             /\ AnalyzerDistribution.total_responses = ret.out.total_responses
             /\ AnalyzerDistribution.valid_responses = ret.out.valid_responses
             /\ SameEntries(ret.out.distribution, AnalyzerDistribution.distribution)
       /\ (Returned("create_subset") /\ PlainTarget(ret.value) /\ ret.out.kind = "table")
          => /\ AnalyzerSubset.kind = "table"
             /\ AnalyzerSubset.table.rows = ret.out.table.rows

(***************************************************************************)
(* What the specification says of an interactive session.                  *)
(***************************************************************************)
\* the words that end a session
QuitWords == { <<"q", "u", "i", "t">>, <<"e", "x", "i", "t">>, <<"q">> }

\* the line typed, trimmed and in lower case
Entered(line) == Lower(Strip(line))

\* the first word of the line typed, in lower case
CommandWord(line) == IF split(line) = <<>> THEN <<>> ELSE Lower(split(line)[1])

\* the messages by which a failure is told to the user
ErrorReports ==
    { "Error:", "Error executing command:", "Error getting options:",
      "Error displaying distribution:", "Error creating subset:",
      "Column not found.", "Operation interrupted. Type 'quit' to exit." }

\* the command typed into the session of StackOverflowSurveyAnalyzer fails
\* on table df: a prompt is interrupted, the column is not one of df, or the
\* operation of the analyzer raises
FailsOn(typed, df) ==
    LET command == Entered(typed.line)
        answers == typed.answers
    IN  \/ command \in {<<"1">>, <<"2">>} /\ answers.term \in {CtrlC, EndOfInput}
        \/ /\ command = <<"4">>
           /\ \/ answers.column \notin Columns(df)
              \/ answers.limit \in {CtrlC, EndOfInput}
              \/ get_distribution(answers.column, df, 1).kind = "error"
        \/ /\ command = <<"5">>
           /\ \/ answers.column \notin Columns(df)
              \/ get_unique_values(answers.column, df).kind = "error"
              \/ answers.value \in {CtrlC, EndOfInput}
              \/ /\ Strip(answers.value) # <<>>
                 /\ \/ answers.use \in {CtrlC, EndOfInput}
                    \/ SurveyAnalyzer_create_subset(answers.column,
                           Strip(answers.value), df).kind = "error"

\* the command just processed failed
CommandFailed ==
    /\ ret'.op = "command"
    /\ \/ ret'.out.caught # ""
       \/ ret'.impl = "A" /\ FailsOn(ret', cur)

\* C22: in both command loops a command that fails (its column is not in
\* the data, or an operation raises, or a prompt is interrupted) is reported
\* to the user, the loop goes on to the next command, and the full dataset,
\* the current dataset and the subset name are what they were before it.
C22_ErrorsNonFatal ==
    [][CommandFailed
       => /\ ret'.out.said # <<>>
          /\ Head(ret'.out.said) \in ErrorReports
          /\ pc' # "ended"
          /\ <<data', cur', repl'>> = <<data, cur, repl>>]_vars

\* a narrowed session of StackOverflowSurveyAnalyzer in which the filter of
\* a subset command has just raised and the loop is at its prompt again
C22_Witness ==
    /\ ret.op = "command"
    /\ ret.impl = "A"
    /\ ret.out.said = <<"Error creating subset:", "AttributeError">>
    /\ cur # data
    /\ repl.current_subset_name # FullDataset
    /\ pc = "prompt"

\* C23: a line that is 'quit', 'exit' or 'q' in any letter case ends the
\* loop after "Goodbye!" is printed; a line whose command word is none of
\* these never ends it, whatever subset name it produces; and once the loop
\* has ended nothing more is read.
C23_QuitEndsSession ==
    [][/\ pc # "ended"
       /\ ret'.op = "command"
          => /\ Entered(ret'.line) \in QuitWords
                => /\ pc' = "ended"
                   /\ ret'.out.said # <<>>
                   /\ ret'.out.said[Len(ret'.out.said)] = "Goodbye!"
             /\ CommandWord(ret'.line) \notin QuitWords => pc' # "ended"]_vars

\* the narrowed session of StackOverflowSurveyAnalyzer ended by 'Q'
C23_Witness ==
    /\ pc = "ended"
    /\ ret.op = "command"
    /\ ret.impl = "A"
    /\ ret.line = <<"Q">>
    /\ cur # data
    /\ repl.current_subset_name = QUIT

\* the subset command that replaces the pair: an existing column, a value
\* that is not empty, a filter that succeeds and the answer y
SubsetTaken(typed, df) ==
    /\ Entered(typed.line) = <<"5">>
    /\ typed.answers.column \in Columns(df)
    /\ typed.answers.value \notin {CtrlC, EndOfInput}
    /\ Strip(typed.answers.value) # <<>>
    /\ SurveyAnalyzer_create_subset(typed.answers.column, Strip(typed.answers.value),
                                    df).kind = "table"
    /\ Entered(typed.answers.use) = <<"y">>

\* C28: in the session of StackOverflowSurveyAnalyzer a command other than
\* quit changes the pair (current dataset, current subset name) only when it
\* is '5' with an existing column, a value that is not empty, a filter that
\* succeeds and the answer y (in either case); every other command leaves
\* both as they were.
C28_OnlySubsetChangesPair ==
    [][(/\ repl.impl = "A"
        /\ ret'.op = "command"
        /\ Entered(ret'.line) \notin QuitWords
        /\ <<cur', repl'.current_subset_name>> # <<cur, repl.current_subset_name>>)
       => SubsetTaken(ret', cur)]_vars

\* a subset has been taken in place of the full dataset
C28_Witness ==
    /\ ret.op = "command"
    /\ ret.impl = "A"
    /\ Entered(ret.line) = <<"5">>
    /\ ret.answers.use = <<" ", "Y">>
    /\ cur # data
    /\ repl.current_subset_name = FilteredBy("Age", <<"a">>)

\* C29: in the session of StackOverflowSurveyAnalyzer the current dataset
\* is always some of the rows of the full dataset in their order, no command
\* makes it longer, and the full dataset is never replaced.
C29_NarrowingOnly ==
    [][repl.impl = "A"
       => /\ IsSubsequence(cur'.rows, data.rows)
          /\ NRows(cur') <= NRows(cur)
          /\ data' = data]_vars

\* a session narrowed twice, down to no row at all
C29_Witness ==
    /\ ret.op = "command"
    /\ ret.impl = "A"
    /\ Entered(ret.line) = <<"5">>
    /\ NRows(data) = 2
    /\ NRows(cur) = 0
    /\ ret.answers.value = <<"A", " ">>

====
